---- MODULE Spec2Model ----
(***************************************************************************)
(* A model of the BigCommerce API client of src/index.js: the request      *)
(* helpers get/post/put/delete with their retry-on-transport-failure       *)
(* paths, readResponse and the session's meta, paginate/getAll and         *)
(* deleteAll.  One action is one event-loop turn: a caller's invocation    *)
(* (run up to its first await) or the settlement of one awaited network    *)
(* promise together with every continuation that settlement resumes.       *)
(*                                                                         *)
(* Strings are real strings: URLs and error messages are built with \o the *)
(* way the code builds them.  The remote API is the environment; it        *)
(* answers a request from the URL it receives.                             *)
(***************************************************************************)
EXTENDS Integers, Sequences, FiniteSets, TLC

VARIABLES
    calls,   \* every invocation of get/post/put/delete (one promise each)
    objs,    \* the caller-held `queries` objects (shared by reference)
    tasks,   \* the caller's top-level operations
    meta,    \* this.meta
    store,   \* the remote collection, in its listing order
    log,     \* every HTTP request issued, in issue order
    nfail,   \* transport failures injected so far
    nerr,    \* non-2xx responses injected so far
    nempty,  \* 2xx empty-body responses injected so far
    reordered, \* history: some page's data arrived before an earlier page's
    store0   \* history: the collection as it was at the start

vars ==
    <<calls, objs, tasks, meta, store, log, nfail, nerr, nempty, reordered,
      store0>>

-----------------------------------------------------------------------------
(* Bounds of the model. *)

MaxItems == 9        \* largest collection listed by getAll
MaxDelItems == 4     \* largest collection emptied by deleteAll
MaxLimit == 3        \* largest `limit` a caller passes
ServerPageSize == 2  \* the API's page size when the query has no limit
MaxFailures == 2     \* transport failures per run
MaxErrors == 2       \* non-2xx responses per run
MaxEmpty == 1        \* 2xx responses with an empty body per run
MaxReqItems == 1     \* largest collection behind the single requests
MaxCalls == 2        \* single requests a caller makes, one after the other
MaxConcItems == 3    \* largest collection behind concurrent operations
MaxConcurrent == 2   \* operations a caller runs at the same time
MaxTwiceItems == 4   \* largest collection listed twice
MaxStaleItems == 2   \* largest collection behind an API that keeps deleted items
MaxStaleRounds == 2  \* delete rounds in which that API keeps deleted items

(* Program constants. *)

Concurrency == 3     \* { concurrency: 3 } of getAll

-----------------------------------------------------------------------------
(* Values. *)

hash == "h"
base == "https://api.bigcommerce.com/stores/" \o hash \o "/"

Endpoint == "e"

EmptyMeta == [has |-> FALSE, total_pages |-> 0, current_page |-> 0]

Pagination(total, current) ==
    [has |-> TRUE, total_pages |-> total, current_page |-> current]

Undefined == [def |-> FALSE, data |-> <<>>]
Value(d) == [def |-> TRUE, data |-> d]

NoResp ==
    [ok |-> FALSE, status |-> 0, statusText |-> "", errText |-> "",
     empty |-> TRUE, data |-> <<>>, meta |-> EmptyMeta]

NoOut == [kind |-> "none", val |-> Undefined, error |-> ""]
Fulfilled(v) == [kind |-> "ok", val |-> v, error |-> ""]
Rejected(e) == [kind |-> "err", val |-> Undefined, error |-> e]

TypeError == "TypeError"

Max(a, b) == IF a >= b THEN a ELSE b
Min(a, b) == IF a <= b THEN a ELSE b
CeilDiv(a, b) == (a + b - 1) \div b

-----------------------------------------------------------------------------
(* querystring.stringify of a flat object: key=value pairs in the object's *)
(* insertion order, joined by '&'.                                         *)

RECURSIVE stringify(_)
stringify(q) ==
    IF Len(q) = 0 THEN ""
    ELSE LET p == q[1].k \o "=" \o ToString(q[1].v)
         IN IF Len(q) = 1 THEN p ELSE p \o "&" \o stringify(Tail(q))

(* obj[key] = v on a JavaScript object: an existing key keeps its place. *)
HasKey(q, key) == \E i \in DOMAIN q : q[i].k = key

SetKey(q, key, v) ==
    IF HasKey(q, key)
    THEN [i \in DOMAIN q |-> IF q[i].k = key THEN [k |-> key, v |-> v] ELSE q[i]]
    ELSE Append(q, [k |-> key, v |-> v])

(* The object behind a `queries` reference; 0 is the default parameter {}. *)
QueryOf(w, q) == IF q = 0 THEN <<>> ELSE w.objs[q]

-----------------------------------------------------------------------------
(* The request helpers, up to their `await fetch(...)`. *)

NewCall(method, endpoint, q, body, parent, task) ==
    [method |-> method, endpoint |-> endpoint, q |-> q, body |-> body,
     state |-> "fetch", parent |-> parent, task |-> task,
     resp |-> NoResp, out |-> NoOut]

Issue(w, c, url) ==
    [w EXCEPT !.calls = Append(@, c),
              !.log = Append(@, [method |-> c.method, url |-> url,
                                 body |-> c.body, call |-> Len(w.calls) + 1])]

get(w, endpoint, q, parent, task) ==
    LET ep == endpoint \o "?" \o stringify(QueryOf(w, q))
    IN Issue(w, NewCall("GET", ep, q, 0, parent, task), base \o ep)

post(w, endpoint, body, parent, task) ==
    Issue(w, NewCall("POST", endpoint, 0, body, parent, task), base \o endpoint)

put(w, endpoint, body, parent, task) ==
    Issue(w, NewCall("PUT", endpoint, 0, body, parent, task), base \o endpoint)

delete(w, endpoint, q, parent, task) ==
    LET ep == endpoint \o "?" \o stringify(QueryOf(w, q))
    IN Issue(w, NewCall("DELETE", ep, q, 0, parent, task), base \o ep)

(* The catch blocks: the helper calls itself with its own (already         *)
(* rewritten) endpoint and the same queries object, and awaits that call.  *)
catch(w, c) ==
    LET me == w.calls[c]
        w1 == [w EXCEPT !.calls[c].state = "retry"]
    IN CASE me.method = "GET" -> get(w1, me.endpoint, me.q, c, 0)
         [] me.method = "POST" -> post(w1, me.endpoint, me.body, c, 0)
         [] me.method = "PUT" -> put(w1, me.endpoint, me.body, c, 0)
         [] me.method = "DELETE" -> delete(w1, me.endpoint, me.q, c, 0)

(* What the awaiting helper does when its recursive call settles. *)
afterRetry(method, out) ==
    IF method = "DELETE"
    THEN IF out.kind = "err" THEN out ELSE Rejected(TypeError)
    ELSE out

(* new Error(`${status} - ${statusText}: ${await response.text()}`) *)
ErrorMessage(resp) ==
    ToString(resp.status) \o " - " \o resp.statusText \o ": " \o resp.errText

-----------------------------------------------------------------------------
(* readResponse: a non-empty body replaces this.meta and yields body.data; *)
(* an empty body yields undefined and leaves this.meta alone.              *)

readMetaAlways(m, resp) == resp.meta

readMeta(m, resp) == IF resp.empty THEN m ELSE resp.meta

readData(resp) == IF resp.empty THEN Undefined ELSE Value(resp.data)

readResponse(w, c) ==
    [w EXCEPT !.meta = readMeta(@, w.calls[c].resp)]

-----------------------------------------------------------------------------
(* Top-level operations. *)

NewTask(kind, endpoint, q, limit) ==
    [kind |-> kind, state |-> "pending", endpoint |-> endpoint, q |-> q,
     limit |-> limit, accum |-> <<>>, total |-> 0, batch |-> <<>>,
     result |-> <<>>, value |-> Undefined, error |-> "",
     fetched |-> <<>>, rounds |-> 0]

Return(w, t, v) ==
    [w EXCEPT !.tasks[t].state = "returned", !.tasks[t].value = v]

Throw(w, t, e) ==
    [w EXCEPT !.tasks[t].state = "failed", !.tasks[t].error = e]

(* An element of the array paginate builds: a plain value (the first       *)
(* page's data, already awaited) or a pending promise (a call).            *)
Plain(v) == [call |-> 0, val |-> v]
Promise(c) == [call |-> c, val |-> Undefined]

RECURSIVE _paginateLate(_, _, _, _)
_paginateLate(w, t, accum, current) ==
    IF ~w.meta.has
    THEN Throw(w, t, TypeError)
    ELSE LET total == w.meta.total_pages
             q == w.tasks[t].q
         IN IF current < total
            THEN LET w2 == get(w, w.tasks[t].endpoint, q, 0, t)
                     w3 == [w2 EXCEPT !.objs[q] = SetKey(@, "page", current + 1)]
                 IN _paginateLate(w3, t, Append(accum, Promise(Len(w3.calls))),
                                  current + 1)
            ELSE [w EXCEPT !.objs[q] = SetKey(@, "page", current + 1),
                           !.tasks[t].accum = accum,
                           !.tasks[t].total = total,
                           !.tasks[t].state = "map"]

(* _paginate: total is read from this.meta, queries.page is written before *)
(* the test, and each further get is started without being awaited.        *)
RECURSIVE _paginate(_, _, _, _)
_paginate(w, t, accum, current) ==
    IF ~w.meta.has
    THEN Throw(w, t, TypeError)
    ELSE LET total == w.meta.total_pages
             q == w.tasks[t].q
             w1 == [w EXCEPT !.objs[q] = SetKey(@, "page", current + 1)]
         IN IF current < total
            THEN LET w2 == get(w1, w.tasks[t].endpoint, q, 0, t)
                 IN _paginate(w2, t, Append(accum, Promise(Len(w2.calls))),
                              current + 1)
            ELSE [w1 EXCEPT !.tasks[t].accum = accum,
                            !.tasks[t].total = total,
                            !.tasks[t].state = "map"]

(* paginate after its `await this.get(endpoint, queries)`. *)
paginate(w, t, data) == _paginate(w, t, <<Plain(data)>>, 1)

(* BlueBirdProm.map(input, (prom) => prom, { concurrency: 3 }): every      *)
(* element of the input is awaited and handed to the mapper, whose result  *)
(* (here the element's own value, never a pending promise) is stored at    *)
(* the element's index; the map fulfils when every index is filled.        *)
Resolved(w, e) == e.call = 0 \/ w.calls[e.call].state = "ok"

Mapped(w, e) == IF e.call = 0 THEN e.val ELSE w.calls[e.call].out.val

mapResultReversed(w, accum) ==
    [i \in DOMAIN accum |-> Mapped(w, accum[Len(accum) + 1 - i])]

mapResult(w, accum) == [i \in DOMAIN accum |-> Mapped(w, accum[i])]

(* The map rejects as soon as one element rejects. *)
mapRejectedSettle(w, t, e) ==
    LET accum == w.tasks[t].accum
    IN IF \A i \in DOMAIN accum :
            accum[i].call = 0 \/ w.calls[accum[i].call].state \in {"ok", "err"}
       THEN [w EXCEPT !.tasks[t].state = "returned",
                      !.tasks[t].result = mapResult(w, accum)]
       ELSE w

mapRejected(w, t, e) == Throw(w, t, e)

getAll(w, t) ==
    LET accum == w.tasks[t].accum
    IN IF w.tasks[t].state = "map" /\ \A i \in DOMAIN accum : Resolved(w, accum[i])
       THEN [w EXCEPT !.tasks[t].state = "returned",
                      !.tasks[t].result = mapResult(w, accum)]
       ELSE w

(* deleteAll: one delete per fetched item, all started together. *)
RECURSIVE deleteEach(_, _, _, _)
deleteEach(w, t, items, i) ==
    IF i > Len(items)
    THEN w
    ELSE LET w1 == delete(w, w.tasks[t].endpoint \o "/" \o ToString(items[i].id),
                          0, 0, t)
         IN deleteEach([w1 EXCEPT !.tasks[t].batch = Append(@, Len(w1.calls))],
                       t, items, i + 1)

deleteLoopShort(w, t, items) ==
    IF ~items.def
    THEN Throw(w, t, TypeError)
    ELSE LET w1 == [w EXCEPT !.tasks[t].fetched = Append(@, Len(items.data))]
         IN IF Len(items.data) >= w.tasks[t].limit
            THEN deleteEach([w1 EXCEPT !.tasks[t].state = "deleting",
                                       !.tasks[t].batch = <<>>,
                                       !.tasks[t].rounds = @ + 1],
                            t, items.data, 1)
            ELSE Return(w1, t, Undefined)

(* the loop of deleteAll, entered with the result of a fetch *)
deleteLoop(w, t, items) ==
    IF ~items.def
    THEN Throw(w, t, TypeError)
    ELSE LET w1 == [w EXCEPT !.tasks[t].fetched = Append(@, Len(items.data))]
         IN IF Len(items.data) # 0
            THEN deleteEach([w1 EXCEPT !.tasks[t].state = "deleting",
                                       !.tasks[t].batch = <<>>,
                                       !.tasks[t].rounds = @ + 1],
                            t, items.data, 1)
            ELSE Return(w1, t, Undefined)

batchDoneAny(w, t) ==
    \E i \in DOMAIN w.tasks[t].batch : w.calls[w.tasks[t].batch[i]].state = "ok"

(* Promise.all over the batch fulfils when every delete has fulfilled. *)
batchDone(w, t) ==
    \A i \in DOMAIN w.tasks[t].batch : w.calls[w.tasks[t].batch[i]].state = "ok"

refetchStop(w, t) ==
    IF batchDone(w, t) THEN Return(w, t, Undefined) ELSE w

refetch(w, t) ==
    IF batchDone(w, t)
    THEN get([w EXCEPT !.tasks[t].state = "fetching"],
             w.tasks[t].endpoint, w.tasks[t].q, 0, t)
    ELSE w

(* The continuation of task t when the call it awaits settles with out. *)
Resume(w, t, out) ==
    LET task == w.tasks[t]
    IN CASE task.state \in {"returned", "failed"} -> w
         [] task.state = "pending" ->
                IF out.kind = "err" THEN Throw(w, t, out.error)
                ELSE Return(w, t, out.val)
         [] task.state = "first" ->
                IF out.kind = "err" THEN Throw(w, t, out.error)
                ELSE getAll(paginate(w, t, out.val), t)
         [] task.state = "map" ->
                IF out.kind = "err" THEN mapRejected(w, t, out.error)
                ELSE getAll(w, t)
         [] task.state = "fetching" ->
                IF out.kind = "err" THEN Throw(w, t, out.error)
                ELSE deleteLoop(w, t, out.val)
         [] task.state = "deleting" ->
                IF out.kind = "err" THEN Throw(w, t, out.error)
                ELSE refetch(w, t)

(* Call c settles: the helper awaiting it (if it is a retry) settles in    *)
(* turn, and the outermost call resumes its task.                          *)
RECURSIVE Settle(_, _, _)
Settle(w, c, out) ==
    LET me == w.calls[c]
        w1 == [w EXCEPT !.calls[c].state = out.kind, !.calls[c].out = out]
    IN IF me.parent # 0
       THEN Settle(w1, me.parent, afterRetry(w.calls[me.parent].method, out))
       ELSE Resume(w1, me.task, out)

afterFetchRetryNotOk(w, c) ==
    LET me == w.calls[c]
    IN IF me.resp.ok
       THEN IF me.method = "DELETE"
            THEN Settle(w, c, Fulfilled(Undefined))
            ELSE [w EXCEPT !.calls[c].state = "text"]
       ELSE catch(w, c)

(* After `await fetch(...)` delivered a response. *)
afterFetch(w, c) ==
    LET me == w.calls[c]
    IN IF me.resp.ok
       THEN IF me.method = "DELETE"
            THEN Settle(w, c, Fulfilled(Undefined))
            ELSE [w EXCEPT !.calls[c].state = "text"]
       ELSE [w EXCEPT !.calls[c].state = "errtext"]

(* After `await response.text()` delivered the body. *)
afterText(w, c) ==
    LET me == w.calls[c]
    IN IF me.state = "text"
       THEN Settle(readResponse(w, c), c, Fulfilled(readData(me.resp)))
       ELSE Settle(w, c, Rejected(ErrorMessage(me.resp)))

-----------------------------------------------------------------------------
(* The remote API.  It lists the collection page by page                   *)
(* (meta.pagination reports the page counts), deletes an item by id, and   *)
(* answers a URL it cannot parse either with 400 or by some lenient        *)
(* reading of it.                                                          *)

MaxPage == MaxItems + 1

Items(n) == [i \in 1..n |-> [id |-> i]]

Limits == {0} \cup (1..MaxLimit)
Pages == {0} \cup (1..MaxPage)

QueryObject(lim, pg, pageFirst) ==
    LET l == IF lim = 0 THEN <<>> ELSE <<[k |-> "limit", v |-> lim]>>
        p == IF pg = 0 THEN <<>> ELSE <<[k |-> "page", v |-> pg]>>
    IN IF pageFirst THEN p \o l ELSE l \o p

GetRoutes ==
    {[url |-> base \o Endpoint \o "?" \o stringify(QueryObject(lim, pg, pf)),
      lim |-> IF lim = 0 THEN ServerPageSize ELSE lim,
      pg |-> IF pg = 0 THEN 1 ELSE pg] :
        lim \in Limits, pg \in Pages, pf \in BOOLEAN}

RECURSIVE Marks(_)
Marks(k) == IF k = 0 THEN "" ELSE "?" \o Marks(k - 1)

DeleteRoutes ==
    {[url |-> base \o Endpoint \o "/" \o ToString(i) \o Marks(k),
      id |-> i, strict |-> (k = 1)] :
        i \in 1..Max(MaxItems, MaxDelItems), k \in 1..(MaxFailures + 1)}

ListPage(st, lim, pg) ==
    LET lo == (pg - 1) * lim + 1
        hi == Min(pg * lim, Len(st))
    IN IF lo > hi THEN <<>> ELSE SubSeq(st, lo, hi)

Ok(status, statusText, empty, data, m) ==
    [ok |-> TRUE, status |-> status, statusText |-> statusText, errText |-> "",
     empty |-> empty, data |-> data, meta |-> m]

NotOk(status, statusText, text) ==
    [ok |-> FALSE, status |-> status, statusText |-> statusText,
     errText |-> text, empty |-> FALSE, data |-> <<>>, meta |-> EmptyMeta]

ListResponse(st, lim, pg) ==
    Ok(200, "OK", FALSE, ListPage(st, lim, pg),
       Pagination(Max(1, CeilDiv(Len(st), lim)), pg))

NoContent == Ok(204, "No Content", TRUE, <<>>, EmptyMeta)
BadRequest == NotOk(400, "Bad Request", "bad request")
NotFound == NotOk(404, "Not Found", "not found")
ServerError == NotOk(500, "Internal Server Error", "oops")

ErrorResponses == {NotFound, ServerError}

Without(st, id) == SelectSeq(st, LAMBDA it : it.id # id)

Outcome(resp, st) == [resp |-> resp, store |-> st, err |-> 0, empty |-> 0]

GetOutcomes(st, url) ==
    LET hits == {r \in GetRoutes : r.url = url}
    IN IF hits # {}
       THEN {Outcome(ListResponse(st, r.lim, r.pg), st) : r \in hits}
       ELSE {Outcome(BadRequest, st)} \cup
            {Outcome(ListResponse(st, lim, pg), st) :
                lim \in {ServerPageSize, MaxLimit}, pg \in 1..2}

DeleteOutcomes(st, url) ==
    LET hits == {r \in DeleteRoutes : r.url = url}
        done == {IF \E i \in DOMAIN st : st[i].id = r.id
                 THEN Outcome(NoContent, Without(st, r.id))
                 ELSE Outcome(NotFound, st) : r \in hits}
    IN IF \E r \in hits : r.strict
       THEN done
       ELSE {Outcome(BadRequest, st)} \cup done

WriteOutcomes(st, body) ==
    {Outcome(Ok(200, "OK", FALSE, <<[id |-> body]>>, EmptyMeta), st)}

(* What the API may answer to the request of call c, the injected non-2xx  *)
(* and empty 2xx answers included.                                         *)
Outcomes(c) ==
    LET me == calls[c]
        url == base \o me.endpoint
    IN (CASE me.method = "GET" -> GetOutcomes(store, url)
          [] me.method = "DELETE" -> DeleteOutcomes(store, url)
          [] OTHER -> WriteOutcomes(store, me.body))
       \cup (IF nerr < MaxErrors
             THEN {[Outcome(e, store) EXCEPT !.err = 1] : e \in ErrorResponses}
             ELSE {})
       \cup (IF nempty < MaxEmpty /\ me.method # "DELETE"
             THEN {[Outcome(NoContent, store) EXCEPT !.empty = 1]}
             ELSE {})

-----------------------------------------------------------------------------
(* The state as one record, and its write-back. *)

W == [calls |-> calls, objs |-> objs, tasks |-> tasks, meta |-> meta,
      store |-> store, log |-> log]

(* In w a later element of some paginate array is resolved while an       *)
(* earlier one is still pending.                                           *)
OutOfOrder(w) ==
    \E t \in DOMAIN w.tasks :
      \E i, j \in DOMAIN w.tasks[t].accum :
        /\ i < j
        /\ ~Resolved(w, w.tasks[t].accum[i])
        /\ Resolved(w, w.tasks[t].accum[j])

Commit(w) ==
    /\ reordered' = (reordered \/ OutOfOrder(w))
    /\ store0' = store0
    /\ calls' = w.calls
    /\ objs' = w.objs
    /\ tasks' = w.tasks
    /\ meta' = w.meta
    /\ store' = w.store
    /\ log' = w.log

Idle == tasks = <<>>

Settled == \A t \in DOMAIN tasks : tasks[t].state \in {"returned", "failed"}

MayCall == Settled /\ Len(tasks) < MaxCalls

NewObj(w, q) == [w EXCEPT !.objs = Append(@, q)]

Start(w, kind, q, limit, state) ==
    [w EXCEPT !.tasks = Append(@, [NewTask(kind, Endpoint, q, limit)
                                      EXCEPT !.state = state])]

GetQueries == {<<>>, <<[k |-> "limit", v |-> MaxLimit]>>}
Bodies == {1}

(* The caller's invocations, each run up to its first await. *)

StartGet ==
    /\ \E q \in GetQueries :
         LET w1 == Start(NewObj(W, q), "get", Len(objs) + 1, 0, "pending")
         IN Commit(get(w1, Endpoint, Len(objs) + 1, 0, Len(w1.tasks)))
    /\ UNCHANGED <<nfail, nerr, nempty>>

CallGet == MayCall /\ StartGet

StartPost ==
    /\ \E b \in Bodies :
         LET w1 == Start(W, "post", 0, 0, "pending")
         IN Commit(post(w1, Endpoint, b, 0, Len(w1.tasks)))
    /\ UNCHANGED <<nfail, nerr, nempty>>

CallPost == MayCall /\ StartPost

StartPut ==
    /\ \E b \in Bodies :
         LET w1 == Start(W, "put", 0, 0, "pending")
         IN Commit(put(w1, Endpoint \o "/" \o ToString(b), b, 0, Len(w1.tasks)))
    /\ UNCHANGED <<nfail, nerr, nempty>>

CallPut == MayCall /\ StartPut

CallDelete ==
    /\ MayCall
    /\ \E i \in 1..Len(store) :
         LET w1 == Start(W, "delete", 0, 0, "pending")
         IN Commit(delete(w1, Endpoint \o "/" \o ToString(store[i].id), 0, 0,
                          Len(w1.tasks)))
    /\ UNCHANGED <<nfail, nerr, nempty>>

StartGetAll ==
    /\ \E q \in GetQueries :
         LET w1 == Start(NewObj(W, q), "getAll", Len(objs) + 1, 0, "first")
         IN Commit(get(w1, Endpoint, Len(objs) + 1, 0, Len(w1.tasks)))
    /\ UNCHANGED <<nfail, nerr, nempty>>

CallGetAll == Idle /\ StartGetAll

CallDeleteAll ==
    /\ Idle
    /\ \E limit \in 1..MaxLimit :
         LET w1 == Start(NewObj(W, SetKey(<<>>, "limit", limit)), "deleteAll",
                         Len(objs) + 1, limit, "fetching")
         IN Commit(get(w1, Endpoint, Len(objs) + 1, 0, Len(w1.tasks)))
    /\ UNCHANGED <<nfail, nerr, nempty>>

(* getAll once more, with the endpoint and the queries object of the      *)
(* first call, after that call has returned.                               *)
CallGetAllAgain ==
    /\ Len(tasks) = 1
    /\ tasks[1].kind = "getAll"
    /\ tasks[1].state = "returned"
    /\ LET w1 == Start(W, "getAll", tasks[1].q, 0, "first")
       IN Commit(get(w1, tasks[1].endpoint, tasks[1].q, 0, Len(w1.tasks)))
    /\ UNCHANGED <<nfail, nerr, nempty>>

(* One request on a fresh client. *)

OneGet == Idle /\ StartGet

OnePost == Idle /\ StartPost

OnePut == Idle /\ StartPut

(* Operations started while earlier ones are still running. *)

MayOverlap == Len(tasks) < MaxConcurrent

OverlapGet == MayOverlap /\ StartGet

OverlapGetAll == MayOverlap /\ StartGetAll

(* The network's events. *)

TransportFailsCapped ==
    /\ nfail < MaxFailures
    /\ \E c \in DOMAIN calls :
         /\ calls[c].state = "fetch"
         /\ Commit(IF calls[c].parent # 0
                   THEN Settle(W, c, Rejected("fetch failed"))
                   ELSE catch(W, c))
    /\ nfail' = nfail + 1
    /\ UNCHANGED <<nerr, nempty>>

TransportFails ==
    /\ nfail < MaxFailures
    /\ \E c \in DOMAIN calls :
         /\ calls[c].state = "fetch"
         /\ Commit(catch(W, c))
    /\ nfail' = nfail + 1
    /\ UNCHANGED <<nerr, nempty>>

Responds ==
    \E c \in DOMAIN calls :
      /\ calls[c].state = "fetch"
      /\ \E o \in Outcomes(c) :
           /\ Commit(afterFetch([W EXCEPT !.calls[c].resp = o.resp,
                                          !.store = o.store], c))
           /\ nerr' = nerr + o.err
           /\ nempty' = nempty + o.empty
      /\ UNCHANGED nfail

(* An API that answers a delete with 204 and keeps the item listed. *)
RespondsStale ==
    /\ \E c \in DOMAIN calls :
         /\ calls[c].state = "fetch"
         /\ calls[c].method = "DELETE"
         /\ \A t \in DOMAIN tasks : tasks[t].rounds <= MaxStaleRounds
         /\ Commit(afterFetch([W EXCEPT !.calls[c].resp = NoContent], c))
    /\ UNCHANGED <<nfail, nerr, nempty>>

BodyArrives ==
    /\ \E c \in DOMAIN calls :
         /\ calls[c].state \in {"text", "errtext"}
         /\ Commit(afterText(W, c))
    /\ UNCHANGED <<nfail, nerr, nempty>>

-----------------------------------------------------------------------------
(* Specifications: a fresh client against a collection of some size. *)

Fresh(n) ==
    /\ calls = <<>>
    /\ objs = <<>>
    /\ tasks = <<>>
    /\ meta = EmptyMeta
    /\ store = Items(n)
    /\ log = <<>>
    /\ nfail = 0
    /\ nerr = 0
    /\ nempty = 0
    /\ reordered = FALSE
    /\ store0 = Items(n)

Init == \E n \in 0..MaxReqItems : Fresh(n)

Next ==
    \/ CallGet
    \/ CallPost
    \/ CallPut
    \/ CallDelete
    \/ TransportFails
    \/ Responds
    \/ BodyArrives

Spec == Init /\ [][Next]_vars

InitGetAll == \E n \in 0..MaxItems : Fresh(n)

NextGetAll == CallGetAll \/ TransportFails \/ Responds \/ BodyArrives

SpecGetAll == InitGetAll /\ [][NextGetAll]_vars

NextDeleteAll == CallDeleteAll \/ TransportFails \/ Responds \/ BodyArrives

InitDeleteAll == \E n \in 0..MaxDelItems : Fresh(n)

SpecDeleteAll == InitDeleteAll /\ [][NextDeleteAll]_vars

InitConcurrent == \E n \in 0..MaxConcItems : Fresh(n)

NextConcurrent == OverlapGet \/ OverlapGetAll \/ Responds \/ BodyArrives

SpecConcurrent == InitConcurrent /\ [][NextConcurrent]_vars

(* deleteAll against an API that answers every request in the end, some   *)
(* deletes without removing the item.                                      *)
InitStale == \E n \in 0..MaxStaleItems : Fresh(n)

NextStale == CallDeleteAll \/ Responds \/ RespondsStale \/ BodyArrives

SpecDeleteAllFair ==
    InitStale /\ [][NextStale]_vars /\ WF_vars(Responds) /\ WF_vars(BodyArrives)

(* get, post and put over a transport that fails some attempts and        *)
(* delivers a response in the end.                                         *)
NextRequests ==
    OneGet \/ OnePost \/ OnePut \/ TransportFails \/ Responds \/ BodyArrives

SpecRequestsFair ==
    Init /\ [][NextRequests]_vars /\ WF_vars(Responds) /\ WF_vars(BodyArrives)

(* getAll twice over a collection that stays as it is. *)
InitTwice == \E n \in 0..MaxTwiceItems : Fresh(n)

NextTwice == CallGetAll \/ CallGetAllAgain \/ Responds \/ BodyArrives

SpecGetAllTwice == InitTwice /\ [][NextTwice]_vars

-----------------------------------------------------------------------------
(* Vocabulary of the properties. *)

RECURSIVE RootOf(_)
RootOf(c) == IF calls[c].parent = 0 THEN c ELSE RootOf(calls[c].parent)

TaskOf(c) == calls[RootOf(c)].task

CallsOf(t) == {c \in DOMAIN calls : TaskOf(c) = t}

InFlight(c) == calls[c].state = "fetch"

ReceivedNotOk(c) == calls[c].resp.status # 0 /\ ~calls[c].resp.ok

Clean == nfail = 0 /\ nerr = 0 /\ nempty = 0

TasksOfKind(kind) == {t \in DOMAIN tasks : tasks[t].kind = kind}

Requests(t, method) ==
    {i \in DOMAIN log : TaskOf(log[i].call) = t /\ log[i].method = method}

(* the page size the API applies to the caller's query *)
LimitOf(q) ==
    IF HasKey(q, "limit")
    THEN q[CHOOSE i \in DOMAIN q : q[i].k = "limit"].v
    ELSE ServerPageSize

PageCount(st, lim) == Max(1, CeilDiv(Len(st), lim))

RECURSIVE SumOfPageSizes(_, _, _)
SumOfPageSizes(st, lim, n) ==
    IF n = 0 THEN 0
    ELSE Len(ListPage(st, lim, n)) + SumOfPageSizes(st, lim, n - 1)

ExpectedError(resp) ==
    ToString(resp.status) \o " - " \o resp.statusText \o ": " \o resp.errText

(* some delete was answered 2xx while its item stayed in the collection *)
Stale ==
    Cardinality({c \in DOMAIN calls :
                   calls[c].method = "DELETE" /\ calls[c].resp.ok})
      > Len(store0) - Len(store)

(* call c read a 2xx response with a non-empty body through readResponse *)
ReadBody(c) ==
    /\ calls[c].method # "DELETE"
    /\ calls[c].state = "ok"
    /\ calls[c].resp.ok
    /\ ~calls[c].resp.empty

(* the first request of task t: the fetch its operation starts with *)
FirstCall(t) ==
    CHOOSE c \in DOMAIN calls :
      /\ calls[c].task = t
      /\ \A d \in DOMAIN calls : calls[d].task = t => c <= d

-----------------------------------------------------------------------------
\* C1: with no failures, getAll over a collection of N pages returns the
\* flat concatenation of the pages' items: a sequence whose length is the
\* sum of the page sizes, not one entry per page.
C1_FlatConcatenation ==
    \A t \in TasksOfKind("getAll") :
      (tasks[t].state = "returned" /\ Clean) =>
        LET lim == LimitOf(objs[tasks[t].q])
        IN Len(tasks[t].result) =
             SumOfPageSizes(store, lim, PageCount(store, lim))

\* C2: at every moment at most 3 page fetches of one getAll call are in
\* flight (request issued, response not yet received).
C2_AtMostThreeInFlight ==
    \A t \in TasksOfKind("getAll") :
      Cardinality({c \in CallsOf(t) : InFlight(c)}) <= Concurrency

\* C3: in the result of getAll the data of page i stands at index i, before
\* the data of every later page, whatever the order in which the page
\* responses arrived.
C3_PageIndexOrder ==
    \A t \in TasksOfKind("getAll") :
      (tasks[t].state = "returned" /\ nfail = 0) =>
        LET lim == LimitOf(objs[tasks[t].q])
            res == tasks[t].result
        IN /\ Len(res) = PageCount(store, lim)
           /\ \A i \in DOMAIN res :
                res[i].def => res[i].data = ListPage(store, lim, i)
           /\ \A i, j \in DOMAIN res :
                i < j => \A a \in DOMAIN res[i].data, b \in DOMAIN res[j].data :
                           res[i].data[a].id < res[j].data[b].id

C3_Witness ==
    \E t \in TasksOfKind("getAll") :
      /\ tasks[t].state = "returned"
      /\ nfail = 0
      /\ reordered
      /\ Len(tasks[t].result) >= 3
      /\ \A i \in DOMAIN tasks[t].result : tasks[t].result[i].def

\* C4: for get, post, put and delete, when an attempt receives a 2xx
\* response (after any number of transport failures) the call completes
\* successfully: get/post/put return the response's data, delete returns no
\* value, and the call does not fail.
C4_TransportFailureNotSurfaced ==
    \A c \in DOMAIN calls :
      (calls[c].resp.ok /\ calls[c].state = "ok") =>
        LET t == tasks[TaskOf(c)]
        IN /\ t.state = "returned"
           /\ t.value = IF calls[c].method = "DELETE" THEN Undefined
                        ELSE readData(calls[c].resp)

\* C5: every HTTP attempt of one get(endpoint, Q) call, the first and every
\* retry, targets base + endpoint + '?' + formEncode(Q), and without a
\* transport failure exactly one GET is issued.
C5_SameUrlEveryAttempt ==
    \A t \in TasksOfKind("get") :
      /\ \A i \in Requests(t, "GET") :
           log[i].url =
             base \o tasks[t].endpoint \o "?" \o stringify(objs[tasks[t].q])
      /\ nfail = 0 => Cardinality(Requests(t, "GET")) = 1

(* the state part of C6: the call fails with the composed error and is     *)
(* never retried                                                           *)
C6_Terminal ==
    \A c \in DOMAIN calls :
      ReceivedNotOk(c) =>
        /\ calls[c].state \in {"errtext", "err"}
        /\ \A d \in DOMAIN calls : RootOf(d) = RootOf(c) => d <= c
        /\ calls[c].state = "err" =>
             /\ calls[c].out.error = ExpectedError(calls[c].resp)
             /\ tasks[TaskOf(c)].state = "failed"
             /\ tasks[TaskOf(c)].error = ExpectedError(calls[c].resp)

(* the step part of C6: receiving the non-2xx response and reading its     *)
(* body text leave this.meta as it was                                     *)
C6_MetaKept ==
    \A c \in DOMAIN calls :
      (/\ calls[c].state \in {"fetch", "errtext"}
       /\ calls'[c].state \in {"errtext", "err"}
       /\ calls'[c].state # calls[c].state) => meta' = meta

\* C6: a received non-2xx response is terminal for get, post, put and
\* delete: the call fails with an error carrying status code, status text
\* and body text, no further HTTP request is issued for it, and this.meta
\* is left unchanged.
C6_NonOkIsTerminal == []C6_Terminal /\ [][C6_MetaKept]_vars

C6_Witness ==
    \E c \in DOMAIN calls :
      /\ ReceivedNotOk(c)
      /\ calls[c].state = "err"
      /\ calls[c].parent # 0
      /\ meta.has

\* C7: if a page fetch of a getAll call receives a non-2xx response, getAll
\* fails with a failing page's request error and never returns a result,
\* whatever the order in which the page responses arrive.
C7_NoPartialResult ==
    \A t \in TasksOfKind("getAll") :
      LET failing == {c \in CallsOf(t) : ReceivedNotOk(c)}
      IN /\ tasks[t].state = "returned" => failing = {}
         /\ failing # {} => tasks[t].result = <<>>
         /\ (\E c \in failing : calls[c].state = "err") =>
              /\ tasks[t].state = "failed"
              /\ tasks[t].error \in
                   {ExpectedError(calls[c].resp) :
                      c \in {d \in failing : calls[d].state = "err"}}

C7_Witness ==
    \E t \in TasksOfKind("getAll") :
      /\ tasks[t].state = "failed"
      /\ reordered
      /\ \E c \in CallsOf(t) : ReceivedNotOk(c) /\ calls[c].state = "err"
      /\ Cardinality({c \in CallsOf(t) : calls[c].state = "ok"}) >= 3

\* C8: with every delete succeeding and removing its item, deleteAll on M
\* items with page limit L makes ceil(M/L) fetch rounds followed by a delete
\* batch and exactly M delete calls, one per item, and leaves the loop right
\* after the first fetch that returns zero items.
C8_DeleteAllCounts ==
    \A t \in TasksOfKind("deleteAll") :
      (tasks[t].state = "returned" /\ Clean) =>
        LET M == Len(store0)
            L == tasks[t].limit
            f == tasks[t].fetched
        IN /\ tasks[t].rounds = CeilDiv(M, L)
           /\ Cardinality(Requests(t, "GET")) = CeilDiv(M, L) + 1
           /\ Cardinality(Requests(t, "DELETE")) = M
           /\ {log[i].url : i \in Requests(t, "DELETE")} =
                {base \o Endpoint \o "/" \o ToString(store0[k].id) \o "?" :
                   k \in DOMAIN store0}
           /\ Len(f) = CeilDiv(M, L) + 1
           /\ \A i \in DOMAIN f : (f[i] = 0) <=> (i = Len(f))
           /\ store = <<>>

C8_Witness ==
    \E t \in TasksOfKind("deleteAll") :
      /\ tasks[t].state = "returned"
      /\ Clean
      /\ Len(store0) = 3
      /\ tasks[t].limit = 2

\* C9: for a collection with total_pages = 1 and zero items getAll issues
\* exactly one request and returns an empty sequence (length 0).
C9_EmptyCollection ==
    \A t \in TasksOfKind("getAll") :
      (tasks[t].state = "returned" /\ Clean /\ store = <<>>) =>
        /\ tasks[t].total = 1
        /\ Len(log) = 1
        /\ Len(tasks[t].result) = 0

\* C10: while the server returns at most `limit` items per fetch, at most
\* `limit` DELETE requests of one deleteAll call are in flight, and no fetch
\* is issued while a DELETE of the call is still in flight.
C10_BoundedDeletes ==
    \A t \in TasksOfKind("deleteAll") :
      LET dels == {c \in CallsOf(t) : calls[c].method = "DELETE" /\ InFlight(c)}
          gets == {c \in CallsOf(t) : calls[c].method = "GET" /\ InFlight(c)}
      IN /\ (\A i \in DOMAIN tasks[t].fetched :
               tasks[t].fetched[i] <= tasks[t].limit) =>
                 Cardinality(dels) <= tasks[t].limit
         /\ gets # {} => dels = {}

C10_Witness ==
    \E t \in TasksOfKind("deleteAll") :
      /\ tasks[t].rounds >= 2
      /\ tasks[t].limit >= 2
      /\ Cardinality({c \in CallsOf(t) :
                        calls[c].method = "DELETE" /\ InFlight(c)})
           = tasks[t].limit

\* C11: when two operations run concurrently on one client, the page count
\* a paginate call uses is the total_pages of that call's own first-page
\* response, never the one another operation's response wrote.
C11_OwnFirstPageTotal ==
    \A t \in TasksOfKind("getAll") :
      tasks[t].accum # <<>> =>
        tasks[t].total = calls[FirstCall(t)].resp.meta.total_pages

\* C12: when the first-page response reports total_pages = T (T >= 1) and
\* the caller's query has no page key, paginate issues T fetches in all:
\* the first one, then exactly one for each p in 2..T in increasing p, each
\* carrying the caller's query keys with page = p and never a page value
\* meant for a later index.
C12_OneFetchPerPage ==
    \A t \in TasksOfKind("getAll") :
      tasks[t].accum # <<>> =>
        LET T == tasks[t].total
            accum == tasks[t].accum
        IN /\ T >= 1
           /\ Len(accum) = T
           /\ Cardinality({c \in DOMAIN calls : calls[c].task = t}) = T
           /\ accum[1].call = 0
           /\ \E q0 \in GetQueries :
                /\ log[FirstCall(t)].url = base \o Endpoint \o "?" \o stringify(q0)
                /\ \A p \in 2..T :
                     LET c == accum[p].call
                     IN /\ c = accum[2].call + (p - 2)
                        /\ calls[c].task = t
                        /\ log[c].method = "GET"
                        /\ log[c].url =
                             base \o Endpoint \o "?" \o
                               stringify(SetKey(q0, "page", p))

\* C12, continued: the fetches for pages 2..T are all issued in the step in
\* which the first page's body is read (whose meta gives T), so all of them
\* are in flight before any of them is awaited.
C12_IssuedTogether ==
    \A t \in DOMAIN tasks :
      (tasks[t].kind = "getAll" /\ tasks[t].accum = <<>>
         /\ tasks'[t].accum # <<>>) =>
        LET T == tasks'[t].total
        IN /\ \E c \in DOMAIN calls :
                /\ calls[c].state = "text"
                /\ calls'[c].state = "ok"
                /\ ~calls[c].resp.empty
                /\ calls[c].resp.meta.total_pages = T
           /\ Len(log') = Len(log) + (T - 1)
           /\ \A p \in 2..T :
                /\ tasks'[t].accum[p].call > Len(calls)
                /\ calls'[tasks'[t].accum[p].call].state = "fetch"

C13_Returns ==
    (tasks # <<>>) ~>
      (tasks # <<>> /\ (tasks[1].state = "returned" \/ ~Clean \/ Stale))

\* C13, continued: when deleteAll returns, the last fetch it made returned
\* an empty page, and with no failed request nothing is left in the
\* collection; as long as no request fails deleteAll neither fails nor
\* returns while an item is still listed, it has a request under way
\* instead, so that over an API that keeps listing the items it never
\* returns.
C13_OnlyOnEmptyPage ==
    \A t \in TasksOfKind("deleteAll") :
      LET f == tasks[t].fetched
      IN /\ tasks[t].state = "returned" => (f # <<>> /\ f[Len(f)] = 0)
         /\ Clean =>
              /\ tasks[t].state # "failed"
              /\ tasks[t].state = "returned" => store = <<>>
              /\ tasks[t].state # "returned" =>
                   \E c \in CallsOf(t) : calls[c].state \in {"fetch", "text"}

\* C13: both parts: deleteAll returns in the end when deletes remove their
\* items and no request fails, and it returns only after an empty page.
C13_DeleteAllTerminates == C13_Returns /\ []C13_OnlyOnEmptyPage

C13_Witness ==
    \E t \in TasksOfKind("deleteAll") :
      /\ tasks[t].state = "returned"
      /\ Clean
      /\ ~Stale
      /\ tasks[t].rounds >= 2

(* deleteAll still running after more rounds than the collection has pages *)
C13_StaleLoop ==
    \E t \in TasksOfKind("deleteAll") :
      /\ Clean
      /\ Stale
      /\ tasks[t].state = "fetching"
      /\ tasks[t].rounds > CeilDiv(Len(store0), tasks[t].limit)
      /\ store = store0

\* C14: if a DELETE of a deleteAll round receives a non-2xx response,
\* deleteAll fails with the error of that request (of a DELETE request that
\* received a non-2xx response) and issues no fetch after it.
C14_FailsWithRequestError ==
    \A t \in TasksOfKind("deleteAll") :
      \A c \in CallsOf(t) :
        (calls[c].method = "DELETE" /\ ReceivedNotOk(c)
           /\ calls[c].state = "err") =>
          /\ tasks[t].state = "failed"
          /\ tasks[t].error \in
               {ExpectedError(calls[d].resp) :
                  d \in {e \in CallsOf(t) :
                           calls[e].method = "DELETE" /\ ReceivedNotOk(e)}}
          /\ \A d \in CallsOf(t) : calls[d].method = "GET" => d < c

\* C15: get, post and put retry without a cap: every transport failure of
\* an attempt is followed at once by one further attempt of the same call,
\* and the call itself neither completes nor fails by it.
C15_RetryIssued ==
    nfail' = nfail + 1 =>
      /\ Len(log') = Len(log) + 1
      /\ tasks' = tasks
      /\ \E c \in DOMAIN calls :
           /\ calls[c].state = "fetch"
           /\ calls'[c].state = "retry"
           /\ calls'[Len(calls')].parent = c
           /\ calls'[Len(calls')].state = "fetch"
           /\ log'[Len(log')].method = calls[c].method

\* C15, continued: a call completes only with the data of a 2xx response it
\* received and fails only with the request error of a non-2xx response it
\* received; while every attempt has failed in transport it is pending.
C15_SettledByResponse ==
    \A t \in DOMAIN tasks :
      /\ tasks[t].state \in {"pending", "returned", "failed"}
      /\ tasks[t].state = "returned" =>
           \E c \in CallsOf(t) :
             /\ calls[c].resp.ok
             /\ tasks[t].value = readData(calls[c].resp)
      /\ tasks[t].state = "failed" =>
           \E c \in CallsOf(t) :
             /\ ReceivedNotOk(c)
             /\ tasks[t].error = ExpectedError(calls[c].resp)

\* C15, continued: when the transport delivers a response in the end, the
\* call completes or fails in the end.
C15_Completes ==
    (tasks # <<>>) ~>
      (tasks # <<>> /\ tasks[1].state \in {"returned", "failed"})

\* C15: the three parts: a further attempt after every transport failure,
\* no completion and no failure without a response, completion or request
\* error once a response is delivered.
C15_RetryWithoutCap ==
    /\ [][C15_RetryIssued]_vars
    /\ []C15_SettledByResponse
    /\ C15_Completes

C15_Witness ==
    \E t \in DOMAIN tasks :
      /\ tasks[t].state = "returned"
      /\ Cardinality(CallsOf(t)) >= 3
      /\ tasks[t].kind \in {"post", "put"}

\* C16: after any sequence of requests on one client this.meta is the meta
\* field of the most recently read 2xx response with a non-empty body among
\* the get, post and put calls, and the initial empty metadata if there is
\* none.
C16_MetaIsLastRead ==
    Settled =>
      LET read == {c \in DOMAIN calls : ReadBody(c)}
      IN IF read = {}
         THEN meta = EmptyMeta
         ELSE \E c \in read :
                /\ \A d \in read : d <= c
                /\ meta = calls[c].resp.meta

\* C16, continued: a step changes this.meta only by reading the non-empty
\* body of a 2xx response to a get, post or put, and then to that body's
\* meta; starting a call, a delete, a non-2xx response, a transport failure
\* and a 2xx response with an empty body leave it as it was.
C16_MetaStep ==
    LET reads == {c \in DOMAIN calls :
                    /\ calls[c].state = "text"
                    /\ calls'[c].state # "text"
                    /\ ~calls[c].resp.empty}
    IN /\ \A c \in reads :
            calls[c].method # "DELETE" /\ meta' = calls[c].resp.meta
       /\ reads = {} => meta' = meta

\* C16: both parts: this.meta is the meta of the last non-empty 2xx body
\* read by get, post or put, and nothing else changes it.
C16_MetaOfLastBody == []C16_MetaIsLastRead /\ [][C16_MetaStep]_vars

C16_Witness ==
    \E c, d \in DOMAIN calls :
      /\ c < d
      /\ ReadBody(c)
      /\ calls[c].resp.meta.has
      /\ calls[d].method # "DELETE"
      /\ calls[d].state = "ok"
      /\ calls[d].resp.ok
      /\ calls[d].resp.empty
      /\ meta = calls[c].resp.meta

\* C17: getAll is repeatable: the first call leaves the caller's query
\* object as it was passed in, and a second getAll with the same endpoint
\* and the same query object over the unchanged collection issues the same
\* page requests and returns an equal result.
C17_Repeatable ==
    /\ \A t \in TasksOfKind("getAll") :
         (t = 1 /\ tasks[t].state = "returned") =>
           objs[tasks[t].q] \in GetQueries
    /\ (/\ Len(tasks) = 2
        /\ Clean
        /\ \A t \in DOMAIN tasks : tasks[t].state = "returned") =>
          /\ {log[i].url : i \in Requests(1, "GET")} =
               {log[i].url : i \in Requests(2, "GET")}
          /\ tasks[1].result = tasks[2].result

====
